---- MODULE Spec2Model ----
(***************************************************************************)
(* A model of sandboxie.py: the Sandboxie client class, its scoped config  *)
(* transaction over Sandboxie.ini, the Start.exe argument builder and the  *)
(* process id parser.                                                      *)
(*                                                                         *)
(* Sandboxie.ini is modelled as text: a sequence of sections, each a name  *)
(* and the sequence of its raw <<key, value>> lines, so duplicated section *)
(* headers, duplicated keys, mixed-case keys and padded values can all be  *)
(* in the file.  configparser.ConfigParser(strict=False) is modelled by    *)
(* what it does to that text: keys go through optionxform (lower-casing),  *)
(* values are stripped, duplicates merge with the last value winning.      *)
(* Assumptions: file system calls succeed, WinDir is set in the            *)
(* environment, no section is called DEFAULT, dicts keep insertion order.  *)
(***************************************************************************)
EXTENDS Integers, Sequences, FiniteSets, TLC

VARIABLES
    clients,      \* the client objects of this behaviour
    environ,      \* os.environ: the value of SANDBOXIE_INSTALL_DIR, or None
    files,        \* the file system: path of each existing Sandboxie.ini |-> its text
    install_dir,  \* self.install_dir of each client
    defaultbox,   \* self.defaultbox of each client
    config_path,  \* self.config_path of each client
    pc,           \* where each client's current call stands
    op,           \* the call each client is running, or ran last
    config,       \* the ConfigParser local to the running _modify_config
    result,       \* how the last call ended: "ok" or the exception raised
    lastArgs,     \* the argument list of each client's last launcher invocation
    gen,          \* the tokens the pid generator has not reached yet
    yielded,      \* the integers the pid generator has yielded
    output,       \* the launcher output the pid generator was built from
    genState,     \* the pid generator: "none", "open", "exhausted" or "ValueError"
    before,       \* history: the file text when the running call started
    events        \* history: the writes and launcher invocations of the call

vars == <<clients, environ, files, install_dir, defaultbox, config_path, pc, op,
          config, result, lastArgs, gen, yielded, output, genState, before, events>>

\* The pid generator a client holds.
pidVars == <<gen, yielded, output, genState>>

\* Python's None.
None == "None"

Clients == {"c1", "c2"}

WinDir == "C:\\WINDOWS"
DefaultInstallDir == "C:\\Program Files\\Sandboxie"
CustomDir == "D:\\Sandboxie"
ConfigName == "Sandboxie.ini"

\* os.path.join on Windows.
Join(dir, name) == dir \o "\\" \o name

-----------------------------------------------------------------------------
(* configparser *)

\* ConfigParser.optionxform: option names are lower-cased.
optionxform(k) ==
    CASE k = "Enabled" -> "enabled"
      [] k = "ConfigLevel" -> "configlevel"
      [] OTHER -> k

\* str.strip() as the parser applies it to a value read from the file.
Strip(v) ==
    CASE v = " yes" -> "yes"
      [] v = "no " -> "no"
      [] OTHER -> v

\* Index of option k in the option list opts, or 0.
OptionIndex(opts, k) ==
    IF \E i \in 1..Len(opts) : opts[i][1] = k
    THEN CHOOSE i \in 1..Len(opts) : opts[i][1] = k
    ELSE 0

\* cursect[optname] = value: a repeated key keeps its place, the last value wins.
SetOption(opts, k, v) ==
    IF OptionIndex(opts, k) = 0
    THEN Append(opts, <<k, v>>)
    ELSE [opts EXCEPT ![OptionIndex(opts, k)] = <<k, v>>]

\* The key = value lines of one section header, read into the option list opts.
RECURSIVE ReadItems(_, _)
ReadItems(opts, lines) ==
    IF lines = <<>> THEN opts
    ELSE ReadItems(SetOption(opts, optionxform(Head(lines)[1]), Strip(Head(lines)[2])),
                   Tail(lines))

\* Index of section name in the parsed config cfg, or 0.
SectionIndex(cfg, name) ==
    IF \E i \in 1..Len(cfg) : cfg[i].name = name
    THEN CHOOSE i \in 1..Len(cfg) : cfg[i].name = name
    ELSE 0

\* ConfigParser.read_file with strict=False: a repeated header reopens its section.
RECURSIVE ReadFile(_, _)
ReadFile(cfg, text) ==
    IF text = <<>> THEN cfg
    ELSE LET sec == Head(text)
             i == SectionIndex(cfg, sec.name)
         IN IF i = 0
            THEN ReadFile(Append(cfg, [name |-> sec.name,
                                       items |-> ReadItems(<<>>, sec.items)]),
                          Tail(text))
            ELSE ReadFile([cfg EXCEPT ![i].items = ReadItems(cfg[i].items, sec.items)],
                          Tail(text))

\* ConfigParser.write: every section in order, one "key = value" line per option.
WriteFile(cfg) == [i \in 1..Len(cfg) |-> [name |-> cfg[i].name, items |-> cfg[i].items]]

\* BasicInterpolation.before_set: a lone % in a value raises ValueError.
ValidValue(v) == v # "%"

\* read_dict: the options of a dict stored one by one, keys through optionxform.
RECURSIVE ReadDict(_, _)
ReadDict(opts, options) ==
    IF options = <<>> THEN opts
    ELSE ReadDict(SetOption(opts, optionxform(Head(options)[1]), Head(options)[2]),
                  Tail(options))

\* SetSection without the clear: the options are merged into an existing section.
SetSectionMerging(cfg, box, options) ==
    LET i == SectionIndex(cfg, box)
    IN IF i = 0
       THEN Append(cfg, [name |-> box, items |-> ReadDict(<<>>, options)])
       ELSE [cfg EXCEPT ![i].items = ReadDict(cfg[i].items, options)]

\* config[box] = options: an existing section is emptied in place, then filled.
SetSection(cfg, box, options) ==
    LET i == SectionIndex(cfg, box)
    IN IF i = 0
       THEN Append(cfg, [name |-> box, items |-> ReadDict(<<>>, options)])
       ELSE [cfg EXCEPT ![i].items = ReadDict(<<>>, options)]

\* RemoveSection that deletes from the named section to the end of the config.
RemoveSectionToEnd(cfg, box) ==
    IF SectionIndex(cfg, box) = 0 THEN cfg
    ELSE SubSeq(cfg, 1, SectionIndex(cfg, box) - 1)

\* config.remove_section(box): deletes the section when it exists, else nothing.
RemoveSection(cfg, box) ==
    SelectSeq(cfg, LAMBDA s : s.name # box)

-----------------------------------------------------------------------------
(* Sandboxie: construction and the config transaction *)

\* FindConfigPath that keeps searching: the last directory holding Sandboxie.ini.
RECURSIVE FindConfigPathLast(_, _)
FindConfigPathLast(dirs, fs) ==
    IF dirs = <<>> THEN None
    ELSE IF FindConfigPathLast(Tail(dirs), fs) # None
         THEN FindConfigPathLast(Tail(dirs), fs)
         ELSE IF Join(Head(dirs), ConfigName) \in DOMAIN fs
              THEN Join(Head(dirs), ConfigName)
              ELSE None

\* Sandboxie._find_config_path: the first directory holding Sandboxie.ini.
RECURSIVE FindConfigPath(_, _)
FindConfigPath(dirs, fs) ==
    IF dirs = <<>> THEN None
    ELSE IF Join(Head(dirs), ConfigName) \in DOMAIN fs
         THEN Join(Head(dirs), ConfigName)
         ELSE FindConfigPath(Tail(dirs), fs)

\* Sandboxie.get_config: the file at config_path, parsed.
get_config(c) == ReadFile(<<>>, files[config_path[c]])


-----------------------------------------------------------------------------
(* Sandboxie: the launcher *)

\* The defaults of the keyword parameters of Sandboxie.start.
StartDefaults ==
    [command |-> None, box |-> None, silent |-> TRUE, wait |-> FALSE,
     nosbiectrl |-> TRUE, elevate |-> FALSE, disable_forced |-> FALSE,
     reload |-> FALSE, terminate |-> FALSE, terminate_all |-> FALSE,
     listpids |-> FALSE]

\* options.append(flag) under its condition.
AppendIf(options, cond, flag) == IF cond THEN Append(options, flag) ELSE options

\* ControlOptions without the test of command: the control flags always follow theirs.
ControlOptionsAnyCommand(options, kw) ==
    AppendIf(AppendIf(AppendIf(AppendIf(options,
        kw.reload, "/reload"),
        kw.terminate, "/terminate"),
        kw.terminate_all, "/terminate_all"),
        kw.listpids, "/listpids")

\* The control flags, appended only when command is None.
ControlOptions(options, kw) ==
    IF kw.command = None
    THEN AppendIf(AppendIf(AppendIf(AppendIf(options,
             kw.reload, "/reload"),
             kw.terminate, "/terminate"),
             kw.terminate_all, "/terminate_all"),
             kw.listpids, "/listpids")
    ELSE options

\* CommandToken with the pipe assigned outside the listpids branch.
CommandTokenAlwaysPiped(kw) ==
    LET command == IF kw.command = None THEN "| more" ELSE kw.command
    IN IF command = None \/ command = "" THEN "" ELSE command

\* The command after the command-is-None branch and `command or ''`.
CommandToken(kw) ==
    LET command == IF kw.command = None /\ kw.listpids THEN "| more" ELSE kw.command
    IN IF command = None \/ command = "" THEN "" ELSE command

\* The box start runs in: the box argument, or self.defaultbox when it is None.
BoxOf(dbox, box) == IF box = None THEN dbox ELSE box

\* StartArgs with the /wait test placed before the /silent test.
StartArgsWaitFirst(idir, dbox, kw) ==
    LET options ==
            AppendIf(AppendIf(AppendIf(AppendIf(AppendIf(
                <<"/box:" \o BoxOf(dbox, kw.box)>>,
                kw.wait, "/wait"),
                kw.silent, "/silent"),
                kw.nosbiectrl, "/nosbiectrl"),
                kw.elevate, "/elevate"),
                kw.disable_forced, "/dfp")
        start_exe == Join(idir, "Start.exe")
    IN <<start_exe>> \o ControlOptions(options, kw) \o <<CommandToken(kw)>>

\* Sandboxie.start: the argument list handed to _shell_output.
StartArgs(idir, dbox, kw) ==
    LET options ==
            AppendIf(AppendIf(AppendIf(AppendIf(AppendIf(
                <<"/box:" \o BoxOf(dbox, kw.box)>>,
                kw.silent, "/silent"),
                kw.wait, "/wait"),
                kw.nosbiectrl, "/nosbiectrl"),
                kw.elevate, "/elevate"),
                kw.disable_forced, "/dfp")
        start_exe == Join(idir, "Start.exe")
    IN <<start_exe>> \o ControlOptions(options, kw) \o <<CommandToken(kw)>>

\* The keyword arguments reload_config passes to start.
ReloadKw == [StartDefaults EXCEPT !.reload = TRUE]

\* The arguments delete_contents(box) passes to start.
DeleteContentsKw(box) ==
    [StartDefaults EXCEPT !.command = "delete_sandbox_silent", !.box = None]

\* The keyword arguments terminate_processes(box) passes to start.
TerminateKw(box) == [StartDefaults EXCEPT !.terminate = TRUE, !.box = box]

\* The keyword arguments terminate_all_processes passes to start.
TerminateAllKw == [StartDefaults EXCEPT !.terminate_all = TRUE]

\* The keyword arguments running_processes(box) passes to start.
ListPidsKw(box) == [StartDefaults EXCEPT !.listpids = TRUE, !.box = box, !.wait = TRUE]

\* What subprocess.check_output can do: return, or raise CalledProcessError.
Outcomes == {"ok", "CalledProcessError"}

-----------------------------------------------------------------------------
(* The inputs the model draws from *)

BoxNames == {"foo", "sandbox2"}
DefaultBoxes == {"DefaultBox", "somebox"}
Commands == {"test.exe", "ping www.google.com -c 5", ""}

\* The options dicts handed to create_sandbox, as insertion-ordered item lists.
OptionDicts ==
    { << <<"Enabled", "yes">> >>,
      << <<"enabled", "no">>, <<"ConfigLevel", "7">> >>,
      << <<"Enabled", "yes">>, <<"enabled", "no ">> >>,
      << <<"Enabled", "%">> >>,
      << >> }

\* Texts Sandboxie.ini can hold before the first call.
InitialTexts ==
    { << >>,
      << [name |-> "GlobalSettings", items |-> << <<"Template", "a">>, <<"Template", "b">> >>],
         [name |-> "sandbox2", items |-> << <<"Enabled", " yes">> >>],
         [name |-> "sandbox1", items |-> << <<"enabled", "no">> >>],
         [name |-> "sandbox2", items |-> << <<"ConfigLevel", "7">>, <<"enabled", "no">> >>] >> }

InstallDirs == {DefaultInstallDir, CustomDir}
ConfigPaths == {Join(d, ConfigName) : d \in {WinDir} \cup InstallDirs}

-----------------------------------------------------------------------------
(* The state after start-up, before any client is constructed *)

InitWith(cs) ==
    /\ clients = cs
    /\ \E v \in {CustomDir, None} :
           environ = [WinDir |-> WinDir, SANDBOXIE_INSTALL_DIR |-> v]
    /\ \E ps \in SUBSET ConfigPaths : \E t \in InitialTexts :
           files = [p \in ps |-> t]
    /\ install_dir = [c \in Clients |-> None]
    /\ defaultbox = [c \in Clients |-> None]
    /\ config_path = [c \in Clients |-> None]
    /\ pc = [c \in Clients |-> "new"]
    /\ op = [c \in Clients |-> [name |-> "none"]]
    /\ config = [c \in Clients |-> <<>>]
    /\ result = [c \in Clients |-> "none"]
    /\ lastArgs = [c \in Clients |-> <<>>]
    /\ gen = [c \in Clients |-> <<>>]
    /\ yielded = [c \in Clients |-> <<>>]
    /\ output = [c \in Clients |-> <<>>]
    /\ genState = [c \in Clients |-> "none"]
    /\ before = [c \in Clients |-> <<>>]
    /\ events = [c \in Clients |-> <<>>]

Init == InitWith({"c1"})

-----------------------------------------------------------------------------
(* Actions *)

\* Sandboxie.__init__(defaultbox=dbox, install_dir=idir).
Construct(c, dbox, idir) ==
    LET dir == IF idir = None
               THEN IF environ.SANDBOXIE_INSTALL_DIR # None
                    THEN environ.SANDBOXIE_INSTALL_DIR
                    ELSE DefaultInstallDir
               ELSE idir
        path == FindConfigPath(<<environ.WinDir, dir>>, files)
    IN /\ c \in clients
       /\ pc[c] = "new"
       /\ install_dir' = [install_dir EXCEPT ![c] = dir]
       /\ defaultbox' = [defaultbox EXCEPT ![c] = dbox]
       /\ config_path' = [config_path EXCEPT ![c] = path]
       /\ pc' = [pc EXCEPT ![c] = IF path = None THEN "failed" ELSE "idle"]
       /\ result' = [result EXCEPT ![c] = IF path = None THEN "SandboxieError" ELSE "ok"]
       /\ op' = [op EXCEPT ![c] = [name |-> "__init__"]]
       /\ UNCHANGED <<clients, environ, files, config, lastArgs, pidVars, before, events>>

\* EnterModify that keeps the config of the last write and parses that, not the file.
EnterModifyCached(c, call) ==
    /\ pc[c] = "idle"
    /\ op' = [op EXCEPT ![c] = call]
    /\ config' = [config EXCEPT ![c] =
                     IF events[c] # <<>> /\ events[c][1].kind = "write"
                     THEN ReadFile(<<>>, events[c][1].text)
                     ELSE get_config(c)]
    /\ before' = [before EXCEPT ![c] = files[config_path[c]]]
    /\ events' = [events EXCEPT ![c] = <<>>]
    /\ result' = [result EXCEPT ![c] = "running"]
    /\ pc' = [pc EXCEPT ![c] = "block"]
    /\ UNCHANGED <<clients, environ, files, install_dir, defaultbox, config_path,
                   lastArgs, pidVars>>

\* Entering `with self._modify_config() as config`: get_config, then the yield.
EnterModify(c, call) ==
    /\ pc[c] = "idle"
    /\ op' = [op EXCEPT ![c] = call]
    /\ config' = [config EXCEPT ![c] = get_config(c)]
    /\ before' = [before EXCEPT ![c] = files[config_path[c]]]
    /\ events' = [events EXCEPT ![c] = <<>>]
    /\ result' = [result EXCEPT ![c] = "running"]
    /\ pc' = [pc EXCEPT ![c] = "block"]
    /\ UNCHANGED <<clients, environ, files, install_dir, defaultbox, config_path,
                   lastArgs, pidVars>>

\* create_sandbox(box, options) is called.
CreateSandbox(c, box, options) ==
    EnterModify(c, [name |-> "create_sandbox", box |-> box, options |-> options])

\* destroy_sandbox(box) is called.
DestroySandbox(c, box) ==
    EnterModify(c, [name |-> "destroy_sandbox", box |-> box, options |-> <<>>])

\* Whether the block of the running call raises (an option value configparser rejects).
BlockFails(call) ==
    /\ call.name = "create_sandbox"
    /\ \E i \in 1..Len(call.options) : ~ValidValue(call.options[i][2])

\* The config as the block of the running call leaves it.
BlockEffect(cfg, call) ==
    IF call.name = "create_sandbox"
    THEN SetSection(cfg, call.box, call.options)
    ELSE RemoveSection(cfg, call.box)

\* The block runs to its end: the generator resumes after the yield.
BlockReturns(c) ==
    /\ pc[c] = "block"
    /\ ~BlockFails(op[c])
    /\ config' = [config EXCEPT ![c] = BlockEffect(config[c], op[c])]
    /\ pc' = [pc EXCEPT ![c] = "write"]
    /\ UNCHANGED <<clients, environ, files, install_dir, defaultbox, config_path,
                   op, result, lastArgs, pidVars, before, events>>

\* BlockRaises with the write in a finally clause: the config is written on the way out.
BlockRaisesThenWrites(c) ==
    /\ pc[c] = "block"
    /\ BlockFails(op[c])
    /\ files' = [files EXCEPT ![config_path[c]] = WriteFile(config[c])]
    /\ config' = [config EXCEPT ![c] = <<>>]
    /\ result' = [result EXCEPT ![c] = "ValueError"]
    /\ pc' = [pc EXCEPT ![c] = "idle"]
    /\ UNCHANGED <<clients, environ, install_dir, defaultbox, config_path,
                   op, lastArgs, pidVars, before, events>>

\* The block raises: the exception leaves _modify_config at the yield and the call.
BlockRaises(c) ==
    /\ pc[c] = "block"
    /\ BlockFails(op[c])
    /\ config' = [config EXCEPT ![c] = <<>>]
    /\ result' = [result EXCEPT ![c] = "ValueError"]
    /\ pc' = [pc EXCEPT ![c] = "idle"]
    /\ UNCHANGED <<clients, environ, files, install_dir, defaultbox, config_path,
                   op, lastArgs, pidVars, before, events>>

\* WriteConfig that reads the file again and applies the edit to what it holds now.
WriteConfigMerging(c) ==
    /\ pc[c] = "write"
    /\ files' = [files EXCEPT ![config_path[c]] =
                    WriteFile(BlockEffect(ReadFile(<<>>, @), op[c]))]
    /\ events' = [events EXCEPT ![c] =
                     Append(@, [kind |-> "write",
                                text |-> WriteFile(BlockEffect(
                                    ReadFile(<<>>, files[config_path[c]]), op[c]))])]
    /\ config' = [config EXCEPT ![c] = <<>>]
    /\ pc' = [pc EXCEPT ![c] = "reload"]
    /\ UNCHANGED <<clients, environ, install_dir, defaultbox, config_path, op,
                   result, lastArgs, pidVars, before>>

\* self._write_config(config), the statement after the yield.
WriteConfig(c) ==
    /\ pc[c] = "write"
    /\ files' = [files EXCEPT ![config_path[c]] = WriteFile(config[c])]
    /\ events' = [events EXCEPT ![c] =
                     Append(@, [kind |-> "write", text |-> WriteFile(config[c])])]
    /\ config' = [config EXCEPT ![c] = <<>>]
    /\ pc' = [pc EXCEPT ![c] = "reload"]
    /\ UNCHANGED <<clients, environ, install_dir, defaultbox, config_path, op,
                   result, lastArgs, pidVars, before>>

\* One launcher invocation by client c with keyword arguments kw, ending as outcome.
Invoke(c, kw, outcome) ==
    /\ lastArgs' = [lastArgs EXCEPT ![c] = StartArgs(install_dir[c], defaultbox[c], kw)]
    /\ result' = [result EXCEPT ![c] = outcome]

\* ReloadAfterWrite that puts the old text back when the reload fails.
ReloadAfterWriteRollsBack(c, outcome) ==
    /\ pc[c] = "reload"
    /\ Invoke(c, ReloadKw, outcome)
    /\ events' = [events EXCEPT ![c] =
                     Append(@, [kind |-> "invoke",
                                text |-> StartArgs(install_dir[c], defaultbox[c], ReloadKw)])]
    /\ files' = IF outcome = "ok" THEN files
                ELSE [files EXCEPT ![config_path[c]] = before[c]]
    /\ pc' = [pc EXCEPT ![c] = "idle"]
    /\ UNCHANGED <<clients, environ, install_dir, defaultbox, config_path,
                   op, config, pidVars, before>>

\* self.reload_config(), the last statement of create_sandbox and destroy_sandbox.
ReloadAfterWrite(c, outcome) ==
    /\ pc[c] = "reload"
    /\ Invoke(c, ReloadKw, outcome)
    /\ events' = [events EXCEPT ![c] =
                     Append(@, [kind |-> "invoke",
                                text |-> StartArgs(install_dir[c], defaultbox[c], ReloadKw)])]
    /\ pc' = [pc EXCEPT ![c] = "idle"]
    /\ UNCHANGED <<clients, environ, files, install_dir, defaultbox, config_path,
                   op, config, pidVars, before>>

-----------------------------------------------------------------------------
(* running_processes: the pid generator *)

MaxOut == 4

\* The characters a launcher output is made of in this model.
Alphabet == {"1", "3", "-", "A", "\r", "\n"}

\* The launcher outputs of at most MaxOut characters.
Outputs == UNION {[1..n -> Alphabet] : n \in 0..MaxOut}

\* The characters str.split() splits on.
IsSpace(ch) == ch \in {" ", "\t", "\r", "\n"}

\* str.split(): the maximal runs of characters that are not whitespace.
RECURSIVE SplitFrom(_, _, _)
SplitFrom(tokens, cur, rest) ==
    IF rest = <<>>
    THEN IF cur = <<>> THEN tokens ELSE Append(tokens, cur)
    ELSE IF IsSpace(Head(rest))
         THEN SplitFrom(IF cur = <<>> THEN tokens ELSE Append(tokens, cur), <<>>, Tail(rest))
         ELSE SplitFrom(tokens, Append(cur, Head(rest)), Tail(rest))

Split(text) == SplitFrom(<<>>, <<>>, text)

\* The value of a decimal digit, or -1 for any other character.
DigitValue(ch) ==
    CASE ch = "0" -> 0 [] ch = "1" -> 1 [] ch = "2" -> 2 [] ch = "3" -> 3
      [] ch = "4" -> 4 [] ch = "5" -> 5 [] ch = "6" -> 6 [] ch = "7" -> 7
      [] ch = "8" -> 8 [] ch = "9" -> 9 [] OTHER -> -1

\* The digits of int(): the token without its optional sign.
Digits(tok) == IF tok # <<>> /\ Head(tok) \in {"-", "+"} THEN Tail(tok) ELSE tok

\* Whether int(tok) returns: an optional sign, then at least one digit.
IntAccepts(tok) ==
    /\ Digits(tok) # <<>>
    /\ \A i \in 1..Len(Digits(tok)) : DigitValue(Digits(tok)[i]) >= 0

\* The number a run of digits spells, read left to right.
RECURSIVE Magnitude(_, _)
Magnitude(acc, ds) ==
    IF ds = <<>> THEN acc ELSE Magnitude(10 * acc + DigitValue(Head(ds)), Tail(ds))

\* int(tok) for a token int() accepts.
IntOf(tok) ==
    IF Head(tok) = "-" THEN 0 - Magnitude(0, Digits(tok)) ELSE Magnitude(0, Digits(tok))

-----------------------------------------------------------------------------
(* Actions on the launcher *)

\* A call that ends in one launcher invocation: start and its thin wrappers.
\* The calling program ends with the call (pc "returned").
Call(c, call, kw, outcome) ==
    /\ pc[c] = "idle"
    /\ pc' = [pc EXCEPT ![c] = "returned"]
    /\ op' = [op EXCEPT ![c] = call]
    /\ Invoke(c, kw, outcome)
    /\ events' = [events EXCEPT ![c] =
                     <<[kind |-> "invoke",
                        text |-> StartArgs(install_dir[c], defaultbox[c], kw)]>>]
    /\ UNCHANGED <<clients, environ, files, install_dir, defaultbox, config_path,
                   config, before>>

\* start(command, box, silent, ..., listpids).
Start(c, kw, outcome) ==
    /\ Call(c, [name |-> "start", kw |-> kw], kw, outcome)
    /\ UNCHANGED pidVars

\* reload_config().
ReloadConfig(c, outcome) ==
    /\ Call(c, [name |-> "reload_config"], ReloadKw, outcome)
    /\ UNCHANGED pidVars

\* delete_contents(box).
DeleteContents(c, box, outcome) ==
    /\ Call(c, [name |-> "delete_contents", box |-> box], DeleteContentsKw(box), outcome)
    /\ UNCHANGED pidVars

\* terminate_processes(box).
TerminateProcesses(c, box, outcome) ==
    /\ Call(c, [name |-> "terminate_processes", box |-> box], TerminateKw(box), outcome)
    /\ UNCHANGED pidVars

\* terminate_all_processes().
TerminateAllProcesses(c, outcome) ==
    /\ Call(c, [name |-> "terminate_all_processes"], TerminateAllKw, outcome)
    /\ UNCHANGED pidVars

\* running_processes(box): the launcher prints out; the generator is built, not run.
RunningProcesses(c, box, out, outcome) ==
    /\ Call(c, [name |-> "running_processes", box |-> box], ListPidsKw(box), outcome)
    /\ IF outcome = "ok"
       THEN /\ output' = [output EXCEPT ![c] = out]
            /\ gen' = [gen EXCEPT ![c] = Split(out)]
            /\ yielded' = [yielded EXCEPT ![c] = <<>>]
            /\ genState' = [genState EXCEPT ![c] = "open"]
       ELSE UNCHANGED pidVars

\* NextPid that passes over a token int() rejects instead of raising.
NextPidSkipping(c) ==
    /\ genState[c] = "open"
    /\ IF gen[c] = <<>>
       THEN /\ genState' = [genState EXCEPT ![c] = "exhausted"]
            /\ UNCHANGED <<gen, yielded>>
       ELSE IF IntAccepts(Head(gen[c]))
            THEN /\ yielded' = [yielded EXCEPT ![c] = Append(@, IntOf(Head(gen[c])))]
                 /\ gen' = [gen EXCEPT ![c] = Tail(@)]
                 /\ UNCHANGED genState
            ELSE /\ gen' = [gen EXCEPT ![c] = Tail(@)]
                 /\ UNCHANGED <<genState, yielded>>
    /\ UNCHANGED <<clients, environ, files, install_dir, defaultbox, config_path,
                   pc, op, config, result, lastArgs, output, before, events>>

\* next() on the generator: int() of the next token, yielded or raising ValueError.
NextPid(c) ==
    /\ genState[c] = "open"
    /\ IF gen[c] = <<>>
       THEN /\ genState' = [genState EXCEPT ![c] = "exhausted"]
            /\ UNCHANGED <<gen, yielded>>
       ELSE IF IntAccepts(Head(gen[c]))
            THEN /\ yielded' = [yielded EXCEPT ![c] = Append(@, IntOf(Head(gen[c])))]
                 /\ gen' = [gen EXCEPT ![c] = Tail(@)]
                 /\ UNCHANGED genState
            ELSE /\ genState' = [genState EXCEPT ![c] = "ValueError"]
                 /\ gen' = [gen EXCEPT ![c] = Tail(@)]
                 /\ UNCHANGED yielded
    /\ UNCHANGED <<clients, environ, files, install_dir, defaultbox, config_path,
                   pc, op, config, result, lastArgs, output, before, events>>

\* The keyword arguments a caller can hand to start.
StartRequests ==
    [command : Commands \cup {None}, box : BoxNames \cup {None},
     silent : BOOLEAN, wait : BOOLEAN, nosbiectrl : BOOLEAN, elevate : BOOLEAN,
     disable_forced : BOOLEAN, reload : BOOLEAN, terminate : BOOLEAN,
     terminate_all : BOOLEAN, listpids : BOOLEAN]

Next ==
    \E c \in clients :
        \/ \E dbox \in DefaultBoxes, idir \in {CustomDir, None} : Construct(c, dbox, idir)
        \/ \E box \in BoxNames, options \in OptionDicts : CreateSandbox(c, box, options)
        \/ \E box \in BoxNames : DestroySandbox(c, box)
        \/ BlockReturns(c)
        \/ BlockRaises(c)
        \/ WriteConfig(c)
        \/ \E outcome \in Outcomes : ReloadAfterWrite(c, outcome)

Spec == Init /\ [][Next]_vars

\* A machine where Sandboxie.ini is in place: the state the launcher calls start from.
InitInstalled ==
    /\ InitWith({"c1"})
    /\ files = [p \in ConfigPaths |-> <<>>]
    /\ environ.SANDBOXIE_INSTALL_DIR = None

\* A program that drives the launcher: start and its thin wrappers.
NextStart ==
    \E c \in clients :
        \/ \E dbox \in DefaultBoxes, idir \in {CustomDir, None} : Construct(c, dbox, idir)
        \/ pc[c] = "idle" /\ \E kw \in StartRequests, outcome \in Outcomes :
               Start(c, kw, outcome)
        \/ \E outcome \in Outcomes : ReloadConfig(c, outcome)
        \/ \E box \in BoxNames \cup {None}, outcome \in Outcomes : DeleteContents(c, box, outcome)
        \/ \E box \in BoxNames \cup {None}, outcome \in Outcomes : TerminateProcesses(c, box, outcome)
        \/ \E outcome \in Outcomes : TerminateAllProcesses(c, outcome)

SpecStart == InitInstalled /\ [][NextStart]_vars

\* A program that lists the processes of a sandbox and consumes the generator.
NextPids ==
    \E c \in clients :
        \/ \E dbox \in DefaultBoxes, idir \in {CustomDir, None} : Construct(c, dbox, idir)
        \/ pc[c] = "idle" /\ \E box \in BoxNames \cup {None}, out \in Outputs,
                                    outcome \in Outcomes :
               RunningProcesses(c, box, out, outcome)
        \/ NextPid(c)

SpecPids == InitInstalled /\ [][NextPids]_vars

-----------------------------------------------------------------------------
(* Properties of the launcher argument list, checked under SpecStart *)

ControlFlags == {"/reload", "/terminate", "/terminate_all", "/listpids"}

\* The tokens of an argument list.
Tokens(args) == {args[i] : i \in 1..Len(args)}

\* Client c has made the call start(**op[c].kw).
Started(c) == c \in clients /\ pc[c] = "returned" /\ op[c].name = "start"

\* C1: whenever start is called with a command that is not None, whatever the
\* reload, terminate, terminate_all and listpids flags are, the argument list
\* handed to the launcher holds none of /reload, /terminate, /terminate_all,
\* /listpids.
C1_NoControlFlagWithCommand ==
    \A c \in Clients :
        (Started(c) /\ op[c].kw.command # None)
            => Tokens(lastArgs[c]) \cap ControlFlags = {}

\* C1 witness: start was called with a command and all four control flags set.
C1_Witness ==
    \E c \in Clients :
        /\ Started(c)
        /\ op[c].kw.command = "test.exe"
        /\ op[c].kw.reload /\ op[c].kw.terminate
        /\ op[c].kw.terminate_all /\ op[c].kw.listpids

\* C5: the last token of the argument list is the command unchanged when one is
\* given; when the command is None and listpids is set, /listpids is in the list
\* and the last token is the fixed non-empty token "| more"; when the command is
\* None and listpids is not set, whatever reload, terminate and terminate_all
\* are, the last token is the empty string.
C5_LastToken ==
    \A c \in Clients :
        Started(c) =>
            LET kw == op[c].kw
                args == lastArgs[c]
                last == args[Len(args)]
            IN /\ kw.command # None => last = kw.command
               /\ (kw.command = None /\ kw.listpids) =>
                      /\ "/listpids" \in Tokens(args)
                      /\ last = "| more"
                      /\ last # ""
               /\ (kw.command = None /\ ~kw.listpids) => last = ""

\* C5 witness: start was called without a command and without listpids, the
\* other three control flags set.
C5_Witness ==
    \E c \in Clients :
        /\ Started(c)
        /\ op[c].kw.command = None /\ ~op[c].kw.listpids
        /\ op[c].kw.reload /\ op[c].kw.terminate /\ op[c].kw.terminate_all
        /\ lastArgs[c][Len(lastArgs[c])] = ""

\* The flags of the launcher in the order the documentation fixes.
CanonicalOrder ==
    <<"/silent", "/wait", "/nosbiectrl", "/elevate", "/dfp",
      "/reload", "/terminate", "/terminate_all", "/listpids">>

\* Whether the request kw asks for flag f.
Asked(kw, f) ==
    CASE f = "/silent" -> kw.silent
      [] f = "/wait" -> kw.wait
      [] f = "/nosbiectrl" -> kw.nosbiectrl
      [] f = "/elevate" -> kw.elevate
      [] f = "/dfp" -> kw.disable_forced
      [] f = "/reload" -> kw.command = None /\ kw.reload
      [] f = "/terminate" -> kw.command = None /\ kw.terminate
      [] f = "/terminate_all" -> kw.command = None /\ kw.terminate_all
      [] f = "/listpids" -> kw.command = None /\ kw.listpids

\* C6: the argument list of every start call is the launcher path, then
\* /box:<box> (the box given, or the default box when none is), then the flags
\* asked for, each once and in the canonical order, then one last token, which
\* is the command when one is given.  start('test.exe') with all defaults gives
\* [launcher path, /box:<defaultbox>, /silent, /nosbiectrl, 'test.exe'].
C6_ArgumentOrder ==
    \A c \in Clients :
        Started(c) =>
            LET kw == op[c].kw
                args == lastArgs[c]
                n == Len(args)
                start_exe == install_dir[c] \o "\\Start.exe"
            IN /\ n >= 3
               /\ args[1] = start_exe
               /\ args[2] = "/box:" \o (IF kw.box = None THEN defaultbox[c] ELSE kw.box)
               /\ SubSeq(args, 3, n - 1) = SelectSeq(CanonicalOrder, LAMBDA f : Asked(kw, f))
               /\ kw.command # None => args[n] = kw.command
               /\ kw = [StartDefaults EXCEPT !.command = "test.exe"] =>
                      args = <<start_exe, "/box:" \o defaultbox[c],
                               "/silent", "/nosbiectrl", "test.exe">>

\* C6 witness: start was called with every flag set, no command and a box.
C6_Witness ==
    \E c \in Clients :
        /\ Started(c)
        /\ op[c].kw.command = None /\ op[c].kw.box = "foo"
        /\ \A i \in 1..Len(CanonicalOrder) : Asked(op[c].kw, CanonicalOrder[i])
        /\ Len(lastArgs[c]) = 12

\* C8: delete_contents(box) issues a launcher invocation that carries /box:<box>
\* for every box that is not None, and /box:<defaultbox> only when box is None.
C8_DeleteContentsBox ==
    \A c \in Clients :
        (c \in clients /\ pc[c] = "returned" /\ op[c].name = "delete_contents") =>
            lastArgs[c][2] =
                "/box:" \o (IF op[c].box = None THEN defaultbox[c] ELSE op[c].box)

-----------------------------------------------------------------------------
(* Properties of construction and of the config transaction, checked under Spec *)

\* The text of the file client c works on.
ConfigText(c) == files[config_path[c]]

\* The names of the profiles of a parsed config.
ProfileNames(cfg) == {cfg[i].name : i \in 1..Len(cfg)}

\* The option mapping of profile name in a parsed config, as a set of pairs.
ProfileOptions(cfg, name) ==
    LET items == cfg[SectionIndex(cfg, name)].items
    IN {items[i] : i \in 1..Len(items)}

\* What reading the config gave when the call of c started, and what it gives now.
ReadBefore(c) == ReadFile(<<>>, before[c])
ReadNow(c) == ReadFile(<<>>, ConfigText(c))

\* The kinds of the events of the call of c, in order.
EventKinds(c) == [i \in 1..Len(events[c]) |-> events[c][i].kind]

\* Client c runs, or ran last, a call of create_sandbox or destroy_sandbox.
InTransaction(c) ==
    c \in clients /\ op[c].name \in {"create_sandbox", "destroy_sandbox"}

\* The call of c has returned without an error.
Returned(c, name) ==
    c \in clients /\ op[c].name = name /\ pc[c] = "idle" /\ result[c] = "ok"

\* C2: in the scoped transaction the file is rewritten exactly when the block
\* finishes normally: until then nothing is written, after a normal end it has
\* been written once; when the block raises, nothing is written, the file text
\* is what it was when the transaction started and the call ends with the error.
C2_WriteOnlyOnNormalExit ==
    \A c \in Clients :
        InTransaction(c) =>
            /\ pc[c] \in {"block", "write"} =>
                   /\ "write" \notin Tokens(EventKinds(c))
                   /\ ConfigText(c) = before[c]
            /\ (pc[c] = "idle" /\ BlockFails(op[c])) =>
                   /\ events[c] = <<>>
                   /\ ConfigText(c) = before[c]
                   /\ result[c] = "ValueError"
            /\ (pc[c] \in {"reload", "idle"} /\ ~BlockFails(op[c])) =>
                   /\ Cardinality({i \in 1..Len(events[c]) : events[c][i].kind = "write"}) = 1
                   /\ events[c][1].kind = "write"

\* C2 witness: a block has raised on a file that held profiles.
C2_Witness ==
    \E c \in Clients :
        /\ InTransaction(c)
        /\ pc[c] = "idle" /\ result[c] = "ValueError"
        /\ before[c] # <<>>

\* The options dict as create_sandbox stores it: keys lower-cased, of keys equal
\* up to case the last one wins, values stripped of surrounding whitespace.
Normalised(options) ==
    {<<optionxform(options[i][1]), Strip(options[i][2])>> :
        i \in {j \in 1..Len(options) :
                 \A k \in (j + 1)..Len(options) :
                     optionxform(options[k][1]) # optionxform(options[j][1])}}

\* Every profile other than box reads now as it read when the call started.
OthersUnchanged(c, box) ==
    /\ ProfileNames(ReadNow(c)) \ {box} = ProfileNames(ReadBefore(c)) \ {box}
    /\ \A n \in ProfileNames(ReadBefore(c)) \ {box} :
           ProfileOptions(ReadNow(c), n) = ProfileOptions(ReadBefore(c), n)

\* C3 as stated: after create_sandbox(name, options) returns, reading the config
\* yields a profile called name whose option mapping is exactly options, same
\* keys and same values, and every other profile is there unchanged.
C3_ExactOptions ==
    \A c \in Clients :
        Returned(c, "create_sandbox") =>
            /\ op[c].box \in ProfileNames(ReadNow(c))
            /\ ProfileOptions(ReadNow(c), op[c].box) = Tokens(op[c].options)
            /\ OthersUnchanged(c, op[c].box)

\* C3 amended: after create_sandbox(name, options) returns, reading the config
\* yields a profile called name whose option mapping is options with every key
\* lower-cased (of keys equal up to case the last one wins) and every value
\* stripped of surrounding whitespace, and every other profile reads with the
\* keys and values it read with before the call.
C3_NormalisedOptions ==
    \A c \in Clients :
        Returned(c, "create_sandbox") =>
            /\ op[c].box \in ProfileNames(ReadNow(c))
            /\ ProfileOptions(ReadNow(c), op[c].box) = Normalised(op[c].options)
            /\ OthersUnchanged(c, op[c].box)

\* C3 witness: create_sandbox has replaced a profile, with mixed-case keys, in a
\* file that holds other profiles.
C3_Witness ==
    \E c \in Clients :
        /\ Returned(c, "create_sandbox")
        /\ op[c].options = << <<"Enabled", "yes">>, <<"enabled", "no ">> >>
        /\ op[c].box \in ProfileNames(ReadBefore(c))
        /\ Cardinality(ProfileNames(ReadBefore(c))) >= 3

\* The text destroy_sandbox(box) leaves when it runs on text.
DestroyedText(text, box) == WriteFile(RemoveSection(ReadFile(<<>>, text), box))

\* C4: destroy_sandbox(name) removes exactly the profile called name and leaves
\* every other profile with its options; when there is no such profile it ends
\* without an error of its own and the profiles and their options are what they
\* were; calling it again on the result changes nothing.
C4_DestroyExactlyOne ==
    \A c \in Clients :
        (c \in clients /\ op[c].name = "destroy_sandbox" /\ pc[c] = "idle") =>
            /\ result[c] \in Outcomes
            /\ ProfileNames(ReadNow(c)) = ProfileNames(ReadBefore(c)) \ {op[c].box}
            /\ OthersUnchanged(c, op[c].box)
            /\ DestroyedText(ConfigText(c), op[c].box) = ConfigText(c)

\* C4 witness: destroy_sandbox has removed a profile from a file that holds others.
C4_Witness ==
    \E c \in Clients :
        /\ Returned(c, "destroy_sandbox")
        /\ op[c].box \in ProfileNames(ReadBefore(c))
        /\ Cardinality(ProfileNames(ReadNow(c))) >= 2

\* C7: construction looks for Sandboxie.ini in the WinDir directory first and in
\* the installation directory second: found in WinDir, that path is taken even
\* when the installation directory has one too; found only in the installation
\* directory, that path is taken; found in neither, construction fails and there
\* is no client.  The path never changes afterwards.
C7_ConfigPathResolution ==
    /\ [](\A c \in Clients :
            (c \in clients /\ pc[c] # "new") =>
                LET win == environ.WinDir \o "\\Sandboxie.ini"
                    inst == install_dir[c] \o "\\Sandboxie.ini"
                IN /\ win \in DOMAIN files =>
                          config_path[c] = win /\ pc[c] # "failed"
                   /\ (win \notin DOMAIN files /\ inst \in DOMAIN files) =>
                          config_path[c] = inst /\ pc[c] # "failed"
                   /\ (win \notin DOMAIN files /\ inst \notin DOMAIN files) =>
                          /\ pc[c] = "failed"
                          /\ result[c] = "SandboxieError"
                          /\ config_path[c] = None)
    /\ [][\A c \in Clients : pc[c] # "new" => config_path'[c] = config_path[c]]_vars

\* C7 witness: a client built where both directories hold the file has gone on to
\* rewrite its config.
C7_Witness ==
    \E c \in Clients :
        /\ c \in clients /\ pc[c] = "idle" /\ InTransaction(c)
        /\ install_dir[c] = CustomDir
        /\ {Join(WinDir, ConfigName), Join(CustomDir, ConfigName)} \subseteq DOMAIN files
        /\ config_path[c] = Join(WinDir, ConfigName)

\* C10: create_sandbox and destroy_sandbox write the config before they invoke
\* the reload, invoke it once and never again; when the reload fails the call
\* ends with that error and the file keeps the text that was written.
C10_WriteThenReloadOnce ==
    \A c \in Clients :
        InTransaction(c) =>
            /\ EventKinds(c) \in {<<>>, <<"write">>, <<"write", "invoke">>}
            /\ (pc[c] = "idle" /\ ~BlockFails(op[c])) =>
                   /\ EventKinds(c) = <<"write", "invoke">>
                   /\ "/reload" \in Tokens(events[c][2].text)
                   /\ lastArgs[c] = events[c][2].text
                   /\ result[c] \in Outcomes
            /\ (pc[c] = "idle" /\ result[c] = "CalledProcessError") =>
                   /\ ConfigText(c) = events[c][1].text
                   /\ op[c].name = "create_sandbox" =>
                          op[c].box \in ProfileNames(ReadNow(c))
                   /\ op[c].name = "destroy_sandbox" =>
                          op[c].box \notin ProfileNames(ReadNow(c))

\* C10 witness: the reload of a create_sandbox that changed the file has failed.
C10_Witness ==
    \E c \in Clients :
        /\ c \in clients /\ op[c].name = "create_sandbox"
        /\ pc[c] = "idle" /\ result[c] = "CalledProcessError"
        /\ ConfigText(c) # before[c]

-----------------------------------------------------------------------------
(* Properties of the pid generator, checked under SpecPids *)

\* The positions of output where a whitespace-separated token starts.
TokenStarts(out) ==
    {i \in 1..Len(out) : ~IsSpace(out[i]) /\ (i = 1 \/ IsSpace(out[i - 1]))}

\* The k-th token of output, counted from 1.
TokenAt(out, k) ==
    LET i == CHOOSE s \in TokenStarts(out) :
                 Cardinality({t \in TokenStarts(out) : t < s}) = k - 1
        j == CHOOSE e \in i..Len(out) :
                 /\ \A x \in i..e : ~IsSpace(out[x])
                 /\ (e = Len(out) \/ IsSpace(out[e + 1]))
    IN SubSeq(out, i, j)

DecimalDigits == <<"0", "1", "2", "3", "4", "5", "6", "7", "8", "9">>

\* Whether a token is a run of decimal digits with an optional sign in front.
IsNumber(tok) ==
    LET ds == IF tok[1] \in {"-", "+"} THEN SubSeq(tok, 2, Len(tok)) ELSE tok
    IN Len(ds) >= 1 /\ \A i \in 1..Len(ds) : ds[i] \in Tokens(DecimalDigits)

RECURSIVE PowerOfTen(_)
PowerOfTen(n) == IF n = 0 THEN 1 ELSE 10 * PowerOfTen(n - 1)

RECURSIVE SumOver(_, _)
SumOver(f, S) ==
    IF S = {} THEN 0 ELSE LET x == CHOOSE y \in S : TRUE IN f[x] + SumOver(f, S \ {x})

\* The integer a number token spells.
NumberOf(tok) ==
    LET ds == IF tok[1] \in {"-", "+"} THEN SubSeq(tok, 2, Len(tok)) ELSE tok
        digit == [i \in 1..Len(ds) |->
                     (CHOOSE d \in 1..10 : DecimalDigits[d] = ds[i]) - 1]
        total == SumOver([i \in 1..Len(ds) |-> digit[i] * PowerOfTen(Len(ds) - i)],
                         1..Len(ds))
    IN IF tok[1] = "-" THEN 0 - total ELSE total

\* The integers yielded so far are the first tokens of the output, one integer
\* per token and in the order of the tokens; the generator ends only past the
\* last token; it fails only at a token that is not a number.
PidsFollowTokens(c) ==
    LET out == output[c]
        n == Cardinality(TokenStarts(out))
        m == Len(yielded[c])
    IN /\ m <= n
       /\ \A k \in 1..m :
              /\ IsNumber(TokenAt(out, k))
              /\ yielded[c][k] = NumberOf(TokenAt(out, k))
       /\ genState[c] = "exhausted" => m = n
       /\ genState[c] = "ValueError" => m < n /\ ~IsNumber(TokenAt(out, m + 1))
       /\ (genState[c] = "open" /\ Len(gen[c]) = 0) => m = n

\* C9 as stated: running_processes yields one non-negative integer per
\* whitespace-separated token of the output, in the order of the tokens, and a
\* token that is not numeric is a parse failure, never skipped.
C9_NonNegativePids ==
    \A c \in Clients :
        (c \in clients /\ genState[c] # "none") =>
            /\ PidsFollowTokens(c)
            /\ \A k \in 1..Len(yielded[c]) : yielded[c][k] >= 0

\* C9 amended: running_processes yields one integer per whitespace-separated
\* token of the output, in the order of the tokens, negative for a token with a
\* minus sign in front; the first token that is not an optionally signed decimal
\* number raises the parse failure when the generator reaches it, after the
\* integers before it, and is never skipped.
C9_OneIntegerPerToken ==
    \A c \in Clients :
        (c \in clients /\ genState[c] # "none") => PidsFollowTokens(c)

\* C9 witness: the generator has yielded a negative integer and then failed at a
\* token that is not a number.
C9_Witness ==
    \E c \in Clients :
        /\ genState[c] = "ValueError"
        /\ Len(yielded[c]) = 1 /\ yielded[c][1] < 0

-----------------------------------------------------------------------------
(* Two clients on one Sandboxie.ini, checked under SpecRace *)

\* The options dicts the two clients create their sandboxes with.
RaceOptions == { << <<"Enabled", "yes">> >> }

\* Two client objects and an empty Sandboxie.ini in every directory.
InitRace ==
    /\ InitWith({"c1", "c2"})
    /\ files = [p \in ConfigPaths |-> <<>>]
    /\ environ.SANDBOXIE_INSTALL_DIR = None

\* Two programs, each constructing a client and calling create_sandbox; the
\* steps of the two calls interleave freely, as nothing locks the file.
NextRace ==
    \E c \in clients :
        \/ Construct(c, "DefaultBox", None)
        \/ \E box \in BoxNames, options \in RaceOptions : CreateSandbox(c, box, options)
        \/ BlockReturns(c)
        \/ WriteConfig(c)
        \/ \E outcome \in Outcomes : ReloadAfterWrite(c, outcome)

SpecRace == InitRace /\ [][NextRace]_vars

\* Client c has written the config in its running or last call.
HasWritten(c) ==
    InTransaction(c) /\ pc[c] \in {"reload", "idle"} /\ ~BlockFails(op[c])

\* No client but c has ever entered a transaction.
Alone(c) == \A d \in clients \ {c} : ~InTransaction(d)

\* C11: the scoped transaction is not atomic across clients.  A write installs
\* the profiles of the writer's own snapshot plus its edit, whatever the file
\* holds by then, so a profile another client wrote since the snapshot is gone
\* (the witness is that interleaving: two create_sandbox calls with different
\* names, one profile in the file).  While only one client makes calls, every
\* profile in the file when a call starts, and the one it creates, is in the
\* file after its write: no update is lost.
C11_NoAtomicityAcrossClients ==
    /\ [](\A c \in Clients :
            (HasWritten(c) /\ Alone(c)) =>
                ProfileNames(ReadBefore(c)) \cup {op[c].box}
                    \subseteq ProfileNames(ReadNow(c)))
    /\ [][\A c \in Clients :
            (c \in clients /\ pc[c] = "write" /\ pc'[c] = "reload") =>
                ProfileNames(ReadFile(<<>>, files'[config_path[c]]))
                    = ProfileNames(ReadBefore(c)) \cup {op[c].box}]_vars

\* C11 witness: both clients have returned from create_sandbox, with different
\* names, on the same file, and the file holds only one of the two profiles.
C11_Witness ==
    \E c \in Clients, d \in Clients :
        /\ c # d
        /\ Returned(c, "create_sandbox") /\ Returned(d, "create_sandbox")
        /\ config_path[c] = config_path[d]
        /\ op[c].box # op[d].box
        /\ op[c].box \notin ProfileNames(ReadNow(c))
        /\ op[d].box \in ProfileNames(ReadNow(d))

-----------------------------------------------------------------------------
(* A client and an outside writer of Sandboxie.ini, checked under SpecExternal *)

\* The profiles the outside writer (Sandboxie Control, an editor) adds.
ExternalNames == {"ext", "sandbox2"}

\* The lines the outside writer puts under the header of a profile it adds.
ExternalItems == << <<"Enabled", "yes">> >>

\* The section headers in a file text.
Headers(text) == {text[i].name : i \in 1..Len(text)}

\* Between two calls of the clients, the outside writer appends a profile to the
\* Sandboxie.ini at path p.
ExternalAdd(p, name) ==
    /\ p \in DOMAIN files
    /\ \A c \in clients : pc[c] = "idle"
    /\ \E c \in clients : config_path[c] = p
    /\ name \notin Headers(files[p])
    /\ files' = [files EXCEPT ![p] = Append(@, [name |-> name, items |-> ExternalItems])]
    /\ UNCHANGED <<clients, environ, install_dir, defaultbox, config_path, pc, op,
                   config, result, lastArgs, pidVars, before, events>>

\* One client object and the same text in the Sandboxie.ini of every directory.
InitExternal ==
    /\ InitWith({"c1"})
    /\ DOMAIN files = ConfigPaths
    /\ environ.SANDBOXIE_INSTALL_DIR = None

\* A program that creates and destroys sandboxes while the file is also edited
\* from outside between its calls.
NextExternal ==
    \/ \E c \in clients :
        \/ Construct(c, "DefaultBox", None)
        \/ \E box \in BoxNames, options \in OptionDicts : CreateSandbox(c, box, options)
        \/ \E box \in BoxNames : DestroySandbox(c, box)
        \/ BlockReturns(c)
        \/ BlockRaises(c)
        \/ WriteConfig(c)
        \/ \E outcome \in Outcomes : ReloadAfterWrite(c, outcome)
    \/ \E p \in ConfigPaths, name \in ExternalNames : ExternalAdd(p, name)

SpecExternal == InitExternal /\ [][NextExternal]_vars

\* C12: no config is kept between calls.  The config a call of create_sandbox or
\* destroy_sandbox works on is the file as it is when the call starts, so a
\* profile in the file, one added from outside between two calls included,
\* leaves the file or changes its options only in the write of a call that
\* targets that very profile.
C12_ReadsFreshEveryCall ==
    /\ [](\A c \in Clients :
            (c \in clients /\ pc[c] = "block") =>
                config[c] = ReadFile(<<>>, ConfigText(c)))
    /\ [][\A p \in DOMAIN files :
            \/ files'[p] = files[p]
            \/ LET old == ReadFile(<<>>, files[p])
                   new == ReadFile(<<>>, files'[p])
               IN \A n \in ProfileNames(old) :
                      (n \notin ProfileNames(new)
                          \/ ProfileOptions(new, n) # ProfileOptions(old, n))
                      => \E c \in clients :
                             /\ config_path[c] = p
                             /\ pc[c] = "write" /\ pc'[c] = "reload"
                             /\ op[c].box = n]_vars

\* C12 witness: after a create_sandbox('foo') had rewritten the file, the profile
\* ext was added from outside, and a later destroy_sandbox('sandbox2') has
\* returned with ext still in the file.
C12_Witness ==
    \E c \in Clients :
        /\ Returned(c, "destroy_sandbox")
        /\ op[c].box = "sandbox2"
        /\ "foo" \in ProfileNames(ReadBefore(c))
        /\ \E i \in 1..Len(before[c]) :
               before[c][i] = [name |-> "ext", items |-> ExternalItems]
        /\ "ext" \in ProfileNames(ReadNow(c))

====
